---- MODULE Spec2Model ----
(***************************************************************************)
(* SmallInteger of liblumen_alloc (erts/term/integer/small.rs): the        *)
(* immediate integer, its tagged-word encoding, its conversions, its       *)
(* checked operators returning Integer, and its comparison with            *)
(* BigInteger.                                                             *)
(*                                                                         *)
(* Machine integers are modelled with their width.  The build target's     *)
(* pointer width is the variable `width`; the widths of the 32-bit and     *)
(* 64-bit types are scaled down to Bits32 and Bits64 bits so that every    *)
(* value of a type can be enumerated.  All casts wrap at the scaled width. *)
(***************************************************************************)
EXTENDS Integers, Sequences, FiniteSets, TLC

\* Scaled width of u32/i32 (and of usize/isize on a 32-bit target).
Bits32 == 8
\* Scaled width of u64/i64 (and of usize/isize on a 64-bit target).
Bits64 == 10
\* How far past the native bit width the enumerated shift amounts go.
ShiftPast == 2

VARIABLES
    width,  \* target_pointer_width of the build: bits of usize / isize
    op,     \* the operation that produced `out` ("init": nothing yet)
    lhs,    \* self / first argument of the operation
    rhs,    \* second argument of the operation (0 when there is none)
    out     \* the value the operation returned

vars == <<width, op, lhs, rhs, out>>

----------------------------------------------------------------------------
(* Native integers *)

RECURSIVE Pow2(_)
Pow2(n) == IF n = 0 THEN 1 ELSE 2 * Pow2(n - 1)

\* usize::max_value() for a type of `bits` bits
UMax(bits) == Pow2(bits) - 1
\* isize::max_value() / isize::min_value()
IMax(bits) == Pow2(bits - 1) - 1
IMin(bits) == -Pow2(bits - 1)

USet(bits) == 0 .. UMax(bits)
ISet(bits) == IMin(bits) .. IMax(bits)

\* `x as uN`: the low `bits` bits of x, read as unsigned
AsUnsigned(x, bits) == x % Pow2(bits)
\* `x as iN`: the low `bits` bits of x, read as two's complement
AsSigned(x, bits) ==
    LET m == x % Pow2(bits)
    IN  IF m >= Pow2(bits - 1) THEN m - Pow2(bits) ELSE m

\* bitwise operators on unsigned words of n bits
RECURSIVE UAnd(_, _, _)
UAnd(x, y, n) ==
    IF n = 0 THEN 0
    ELSE 2 * UAnd(x \div 2, y \div 2, n - 1)
         + (IF x % 2 = 1 /\ y % 2 = 1 THEN 1 ELSE 0)

RECURSIVE UOr(_, _, _)
UOr(x, y, n) ==
    IF n = 0 THEN 0
    ELSE 2 * UOr(x \div 2, y \div 2, n - 1)
         + (IF x % 2 = 1 \/ y % 2 = 1 THEN 1 ELSE 0)

RECURSIVE UXor(_, _, _)
UXor(x, y, n) ==
    IF n = 0 THEN 0
    ELSE 2 * UXor(x \div 2, y \div 2, n - 1)
         + (IF x % 2 # y % 2 THEN 1 ELSE 0)

UNot(x, n) == UXor(x, UMax(n), n)

\* the same operators on isize (two's complement, `width` bits)
IAnd(x, y) == AsSigned(UAnd(AsUnsigned(x, width), AsUnsigned(y, width), width), width)
IOr(x, y)  == AsSigned(UOr(AsUnsigned(x, width), AsUnsigned(y, width), width), width)
IXor(x, y) == AsSigned(UXor(AsUnsigned(x, width), AsUnsigned(y, width), width), width)
INot(x)    == AsSigned(UNot(AsUnsigned(x, width), width), width)

Abs(x) == IF x < 0 THEN -x ELSE x
Signum(x) == IF x < 0 THEN -1 ELSE IF x = 0 THEN 0 ELSE 1

\* integer division truncated toward zero, remainder with the dividend's sign
TruncDiv(a, b) == Signum(a) * Signum(b) * (Abs(a) \div Abs(b))
TruncRem(a, b) == a - b * TruncDiv(a, b)

\* Option<isize>
None == [some |-> FALSE, val |-> 0]
Some(v) == [some |-> TRUE, val |-> v]
Checked(r) == IF r \in ISet(width) THEN Some(r) ELSE None

checked_add(a, b) == Checked(a + b)
checked_sub(a, b) == Checked(a - b)
checked_mul(a, b) == Checked(a * b)
checked_div(a, b) ==
    IF b = 0 \/ (a = IMin(width) /\ b = -1) THEN None ELSE Some(TruncDiv(a, b))
checked_rem(a, b) ==
    IF b = 0 \/ (a = IMin(width) /\ b = -1) THEN None ELSE Some(TruncRem(a, b))
checked_neg(a) == Checked(-a)
\* None when the amount is at least the bit width, else the wrapping shift
checked_shl(a, shift) ==
    IF shift >= width THEN None ELSE Some(AsSigned(a * Pow2(shift), width))
checked_shr(a, shift) ==
    IF shift >= width THEN None ELSE Some(a \div Pow2(shift))

----------------------------------------------------------------------------
(* Returned values.  The mathematical value of an integer result is        *)
(* value * 2^exp; exp is 0 except for an arbitrary-precision shift-left,   *)
(* whose result can be far larger than any native integer.  path records   *)
(* the branch of the operator that produced the result.                    *)

Result(kind, value, exp, path) ==
    [kind |-> kind, value |-> value, exp |-> exp, path |-> path]

NoResult == Result("none", 0, 0, "none")
Panic(path) == Result("Panic", 0, 0, path)

\* BigInt values: [panic, value, exp]
BigVal(v) == [panic |-> FALSE, value |-> v, exp |-> 0]
BigPanic == [panic |-> TRUE, value |-> 0, exp |-> 0]

\* num_bigint operators on values widened from isize
BigAdd(a, b) == BigVal(a + b)
BigSub(a, b) == BigVal(a - b)
BigMul(a, b) == BigVal(a * b)
BigDiv(a, b) == IF b = 0 THEN BigPanic ELSE BigVal(TruncDiv(a, b))
BigRem(a, b) == IF b = 0 THEN BigPanic ELSE BigVal(TruncRem(a, b))
BigNeg(a) == BigVal(-a)
BigShl(a, n) ==
    IF a = 0 THEN BigVal(0) ELSE [panic |-> FALSE, value |-> a, exp |-> n]
RECURSIVE BigShr(_, _)
BigShr(a, n) ==
    IF n = 0 \/ a = 0 \/ a = -1 THEN BigVal(a) ELSE BigShr(a \div 2, n - 1)

\* Integer::Big(BigInteger::new(b))
IntegerBig(b, path) ==
    IF b.panic THEN Panic(path) ELSE Result("Big", b.value, b.exp, path)

----------------------------------------------------------------------------
(* SmallInteger *)

RESERVED_BITS == 5
NUM_BITS == width - RESERVED_BITS
FLAG_SIGN == Pow2(NUM_BITS)
MAX_VALUE == AsSigned(UMax(width) \div Pow2(RESERVED_BITS), width)
MIN_VALUE == INot(MAX_VALUE)

\* the values a SmallInteger can hold
SmallSet == MIN_VALUE .. MAX_VALUE


\* SmallInteger::new: Result<SmallInteger, TryFromIntError>
new_off_by_one(i) ==
    IF i >= MAX_VALUE \/ i < MIN_VALUE
    THEN Result("Err", 0, 0, "range")
    ELSE Result("Ok", i, 0, "new")

new(i) ==
    IF i > MAX_VALUE \/ i < MIN_VALUE
    THEN Result("Err", 0, 0, "range")
    ELSE Result("Ok", i, 0, "new")

\* SmallInteger::new_unchecked: the value, or the panic of a failed assert!
new_unchecked(i) ==
    IF ~(i <= MAX_VALUE) THEN Panic("assert")
    ELSE IF ~(i >= MIN_VALUE) THEN Panic("assert")
    ELSE Result("Small", i, 0, "unchecked")

\* Term::FLAG_SMALL_INTEGER can be any pattern of the immediate header, the
\* RESERVED_BITS - 1 bits above the sign flag.
TagMask == (Pow2(RESERVED_BITS - 1) - 1) * (2 * FLAG_SIGN)
TagSet == {t * (2 * FLAG_SIGN) : t \in 0 .. (Pow2(RESERVED_BITS - 1) - 1)}

\* the word with the immediate header cleared
Untag(word) == UAnd(word, UNot(TagMask, width), width)

\* AsTerm for SmallInteger: the raw word of the term
as_term_no_abs(v, tag) ==
    IF Signum(v) \in {0, 1}
    THEN UAnd(UOr(AsUnsigned(v, width), tag, width), UNot(FLAG_SIGN, width), width)
    ELSE UOr(UOr(AsUnsigned(v, width), tag, width), FLAG_SIGN, width)

as_term(v, tag) ==
    IF Signum(v) \in {0, 1}
    THEN UAnd(UOr(AsUnsigned(v, width), tag, width), UNot(FLAG_SIGN, width), width)
    ELSE LET val == AsUnsigned(Abs(v), width)
         IN  UOr(UOr(val, tag, width), FLAG_SIGN, width)

\* SmallInteger::from_untagged_term
from_untagged_term(u) ==
    LET is_negative == UAnd(u, FLAG_SIGN, width) = FLAG_SIGN
        unsigned == UAnd(u, UNot(FLAG_SIGN, width), width)
    IN  IF is_negative
        THEN -AsSigned(unsigned, width)
        ELSE AsSigned(unsigned, width)

\* TryFrom<u32>, TryFrom<i32> (32-bit targets only): Self::new(n as isize)
try_from_u32(n) == new(AsSigned(n, width))
try_from_i32(n) == new(AsSigned(n, width))
\* TryFrom<u64>, TryFrom<usize>: n.try_into() to isize, then Self::new
try_from_u64(n) ==
    IF n > IMax(width) THEN Result("Err", 0, 0, "try_into") ELSE new(n)
try_from_usize(n) ==
    IF n > IMax(width) THEN Result("Err", 0, 0, "try_into") ELSE new(n)
\* TryFrom<i64>: Self::new(n as isize); TryFrom<isize>: Self::new(n)
try_from_i64(n) == new(AsSigned(n, width))
try_from_isize(n) == new(n)

\* the three-tier decision shared by the operator macros and the shifts
Tiers_no_range_check(checked, big) ==
    IF ~checked.some THEN IntegerBig(big, "bignum")
    ELSE Result("Small", checked.val, 0, "small")

Tiers(checked, big) ==
    IF ~checked.some THEN IntegerBig(big, "bignum")
    ELSE IF checked.val > MAX_VALUE THEN Result("Big", checked.val, 0, "box")
    ELSE IF checked.val < MIN_VALUE THEN Result("Big", checked.val, 0, "box")
    ELSE Result("Small", checked.val, 0, "small")

\* smallint_binop_trait_impl!, smallint_unaryop_trait_impl!
add(a, b) == Tiers(checked_add(a, b), BigAdd(a, b))
sub(a, b) == Tiers(checked_sub(a, b), BigSub(a, b))
mul(a, b) == Tiers(checked_mul(a, b), BigMul(a, b))
div(a, b) == Tiers(checked_div(a, b), BigDiv(a, b))
rem(a, b) == Tiers(checked_rem(a, b), BigRem(a, b))
neg(a) == Tiers(checked_neg(a), BigNeg(a))

\* Not for SmallInteger
not_unmasked(a) ==
    LET complement == INot(a)
    IN  IF complement > MAX_VALUE \/ complement < MIN_VALUE
        THEN Result("Big", complement, 0, "box")
        ELSE LET s == new_unchecked(complement)
             IN  IF s.kind = "Panic" THEN s ELSE Result("Small", s.value, 0, "small")

not(a) ==
    LET complement == IAnd(INot(a), MAX_VALUE)
    IN  IF complement > MAX_VALUE \/ complement < MIN_VALUE
        THEN Result("Big", complement, 0, "box")
        ELSE LET s == new_unchecked(complement)
             IN  IF s.kind = "Panic" THEN s ELSE Result("Small", s.value, 0, "small")

\* usize -> u32 of rhs.try_into(): fails above u32::max_value()
ShiftFits(n) == n <= UMax(Bits32)

\* Shl<usize>, Shr<usize> for SmallInteger
shl(a, n) ==
    IF ~ShiftFits(n) THEN IntegerBig(BigShl(a, n), "bignum")
    ELSE Tiers(checked_shl(a, n), BigShl(a, n))

shr(a, n) ==
    IF ~ShiftFits(n) THEN IntegerBig(BigShr(a, n), "bignum")
    ELSE Tiers(checked_shr(a, n), BigShl(a, n))

\* smallint_bitop_trait_impl!: Integer::from(new_unchecked(self.0 op rhs.0))
bitop_unsigned(r) == new_unchecked(AsUnsigned(r, width))

bitop(r) == new_unchecked(r)

bitand(a, b) == bitop(IAnd(a, b))
bitor(a, b) == bitop(IOr(a, b))
bitxor(a, b) == bitop(IXor(a, b))

\* Ord for BigInt: Less = -1, Equal = 0, Greater = 1
Cmp(x, y) == IF x < y THEN -1 ELSE IF x = y THEN 0 ELSE 1

\* PartialEq<BigInteger>: other.value.eq(&BigInt::from(self.0 as i64))
eq_big(s, g) ==
    Result("Bool", IF g = AsSigned(s, Bits64) THEN 1 ELSE 0, 0, "eq")

\* PartialOrd<BigInteger>: Some(BigInt::from(self.0 as i64).cmp(&other.value))
partial_cmp_big_reversed(s, g) ==
    Result("SomeOrdering", Cmp(g, AsSigned(s, Bits64)), 0, "cmp")

partial_cmp_big(s, g) ==
    Result("SomeOrdering", Cmp(AsSigned(s, Bits64), g), 0, "cmp")

----------------------------------------------------------------------------
(* Inputs *)

\* shift amounts: around the native width, around u32::max_value(), and
\* usize::max_value()
ShiftSet ==
    {n \in (0 .. (width + ShiftPast))
           \cup {UMax(Bits32) - 1, UMax(Bits32), UMax(Bits32) + 1, UMax(width)} :
        n <= UMax(width)}

\* BigInteger values: across the small range and beyond isize and i64
BigSet ==
    ((2 * MIN_VALUE - 2) .. (2 * MAX_VALUE + 2))
    \cup {IMin(width) - 1, IMin(width), IMax(width), IMax(width) + 1,
          IMin(Bits64) - 1, IMax(Bits64) + 1}

----------------------------------------------------------------------------
(* The state machine: a build target is fixed, then one operation is       *)
(* applied to inputs of its type.  FromUntaggedTerm decodes the word that  *)
(* AsTerm produced.                                                        *)

Init ==
    /\ width \in {Bits32, Bits64}
    /\ op = "init"
    /\ lhs = 0
    /\ rhs = 0
    /\ out = NoResult

Apply(name, a, b, r) ==
    /\ op' = name
    /\ lhs' = a
    /\ rhs' = b
    /\ out' = r
    /\ UNCHANGED width

New ==
    /\ op = "init"
    /\ \E i \in ISet(width) : Apply("new", i, 0, new(i))

AsTerm ==
    /\ op = "init"
    /\ \E v \in SmallSet, tag \in TagSet :
        Apply("as_term", v, tag, Result("Term", as_term(v, tag), 0, "term"))

FromUntaggedTerm ==
    /\ op = "as_term"
    /\ op' = "from_untagged_term"
    /\ out' = Result("Small", from_untagged_term(Untag(out.value)), 0, "decode")
    /\ UNCHANGED <<width, lhs, rhs>>

TryFromU32 ==
    /\ op = "init"
    /\ width = Bits32
    /\ \E n \in USet(Bits32) : Apply("try_from_u32", n, 0, try_from_u32(n))

TryFromI32 ==
    /\ op = "init"
    /\ width = Bits32
    /\ \E n \in ISet(Bits32) : Apply("try_from_i32", n, 0, try_from_i32(n))

TryFromU64 ==
    /\ op = "init"
    /\ \E n \in USet(Bits64) : Apply("try_from_u64", n, 0, try_from_u64(n))

TryFromUsize ==
    /\ op = "init"
    /\ \E n \in USet(width) : Apply("try_from_usize", n, 0, try_from_usize(n))

TryFromI64 ==
    /\ op = "init"
    /\ \E n \in ISet(Bits64) : Apply("try_from_i64", n, 0, try_from_i64(n))

TryFromIsize ==
    /\ op = "init"
    /\ \E n \in ISet(width) : Apply("try_from_isize", n, 0, try_from_isize(n))

Add ==
    /\ op = "init"
    /\ \E a \in SmallSet, b \in SmallSet : Apply("add", a, b, add(a, b))
Sub ==
    /\ op = "init"
    /\ \E a \in SmallSet, b \in SmallSet : Apply("sub", a, b, sub(a, b))
Mul ==
    /\ op = "init"
    /\ \E a \in SmallSet, b \in SmallSet : Apply("mul", a, b, mul(a, b))
Div ==
    /\ op = "init"
    /\ \E a \in SmallSet, b \in SmallSet : Apply("div", a, b, div(a, b))
Rem ==
    /\ op = "init"
    /\ \E a \in SmallSet, b \in SmallSet : Apply("rem", a, b, rem(a, b))
Neg ==
    /\ op = "init"
    /\ \E a \in SmallSet : Apply("neg", a, 0, neg(a))
Not ==
    /\ op = "init"
    /\ \E a \in SmallSet : Apply("not", a, 0, not(a))
Shl ==
    /\ op = "init"
    /\ \E a \in SmallSet, n \in ShiftSet : Apply("shl", a, n, shl(a, n))
Shr ==
    /\ op = "init"
    /\ \E a \in SmallSet, n \in ShiftSet : Apply("shr", a, n, shr(a, n))
BitAnd ==
    /\ op = "init"
    /\ \E a \in SmallSet, b \in SmallSet : Apply("bitand", a, b, bitand(a, b))
BitOr ==
    /\ op = "init"
    /\ \E a \in SmallSet, b \in SmallSet : Apply("bitor", a, b, bitor(a, b))
BitXor ==
    /\ op = "init"
    /\ \E a \in SmallSet, b \in SmallSet : Apply("bitxor", a, b, bitxor(a, b))

EqBig ==
    /\ op = "init"
    /\ \E s \in SmallSet, g \in BigSet : Apply("eq_big", s, g, eq_big(s, g))
PartialCmpBig ==
    /\ op = "init"
    /\ \E s \in SmallSet, g \in BigSet :
        Apply("partial_cmp_big", s, g, partial_cmp_big(s, g))

Next ==
    \/ New
    \/ AsTerm
    \/ FromUntaggedTerm
    \/ TryFromU32
    \/ TryFromI32
    \/ TryFromU64
    \/ TryFromUsize
    \/ TryFromI64
    \/ TryFromIsize
    \/ Add
    \/ Sub
    \/ Mul
    \/ Div
    \/ Rem
    \/ Neg
    \/ Not
    \/ Shl
    \/ Shr
    \/ BitAnd
    \/ BitOr
    \/ BitXor
    \/ EqBig
    \/ PartialCmpBig

Spec == Init /\ [][Next]_vars

TypeOK ==
    /\ width \in {Bits32, Bits64}
    /\ out.kind \in {"none", "Ok", "Err", "Small", "Big", "Panic", "Term",
                     "Bool", "SomeOrdering"}

----------------------------------------------------------------------------
(* Properties.  The range and the expected results are stated              *)
(* arithmetically, independently of the bit manipulation of the code.      *)

\* the small range as the mathematics has it
RangeMax == Pow2(width - 5) - 1
RangeMin == -RangeMax - 1
InRange(v) == RangeMin <= v /\ v <= RangeMax

\* whether value * 2^exp lies in the small range (value within isize)
InRangeScaled(value, exp) ==
    \/ value = 0
    \/ exp < width /\ InRange(value * Pow2(exp))

\* q is the quotient of a by b truncated toward zero
IsQuotient(a, b, q) ==
    LET m == a - q * b
    IN  Abs(m) < Abs(b) /\ (m = 0 \/ Signum(m) = Signum(a))

\* m is the remainder of a by b, with the sign of the dividend
IsRemainder(a, b, m) ==
    /\ Abs(m) < Abs(b)
    /\ m = 0 \/ Signum(m) = Signum(a)
    /\ (a - m) % Abs(b) = 0

\* bitwise operators on unbounded two's-complement integers
RECURSIVE MathAnd(_, _)
MathAnd(a, b) ==
    IF a = 0 \/ b = 0 THEN 0
    ELSE IF a = -1 THEN b
    ELSE IF b = -1 THEN a
    ELSE 2 * MathAnd(a \div 2, b \div 2) + (a % 2) * (b % 2)

RECURSIVE MathOr(_, _)
MathOr(a, b) ==
    IF a = 0 THEN b
    ELSE IF b = 0 THEN a
    ELSE IF a = -1 \/ b = -1 THEN -1
    ELSE 2 * MathOr(a \div 2, b \div 2) + (IF (a % 2) + (b % 2) > 0 THEN 1 ELSE 0)

RECURSIVE MathXor(_, _)
MathXor(a, b) ==
    IF a = 0 THEN b
    ELSE IF b = 0 THEN a
    ELSE IF a = -1 /\ b = -1 THEN 0
    ELSE 2 * MathXor(a \div 2, b \div 2) + (((a % 2) + (b % 2)) % 2)

ArithOps == {"add", "sub", "mul", "div", "rem", "neg"}
ShiftOps == {"shl", "shr"}
BitOps == {"bitand", "bitor", "bitxor"}
TryFromOps == {"try_from_u32", "try_from_i32", "try_from_u64",
               "try_from_usize", "try_from_i64", "try_from_isize"}

\* C1: every in-range value, MIN_VALUE and MAX_VALUE included, that is
\* encoded with as_term, untagged and decoded with from_untagged_term comes
\* back as the same value.
C1_RoundTrip ==
    op = "from_untagged_term" => out.kind = "Small" /\ out.value = lhs

\* r is the exact result of the arithmetic operator `op` on lhs and rhs
IsExact(r) ==
    CASE op = "add" -> r = lhs + rhs
      [] op = "sub" -> r = lhs - rhs
      [] op = "mul" -> r = lhs * rhs
      [] op = "div" -> IsQuotient(lhs, rhs, r)
      [] op = "rem" -> IsRemainder(lhs, rhs, r)
      [] op = "neg" -> r = -lhs

\* C2: add, sub, mul, div and rem by a non-zero divisor, and neg return
\* Integer::Small(r) when the exact result r is within
\* [MIN_VALUE, MAX_VALUE], and Integer::Big of exactly r otherwise.
C2_Canonicalization ==
    (op \in ArithOps /\ ~(op \in {"div", "rem"} /\ rhs = 0)) =>
        /\ out.kind \in {"Small", "Big"}
        /\ out.exp = 0
        /\ IsExact(out.value)
        /\ out.kind = "Small" <=> InRange(out.value)

\* a product that overflows isize is computed by BigInt and boxed
C2_Witness ==
    /\ op = "mul"
    /\ out.path = "bignum"
    /\ out.kind = "Big"
    /\ out.value = lhs * rhs
    /\ out.value > IMax(width)

\* C3: no operator of SmallInteger returns Integer::Big of a value within
\* [MIN_VALUE, MAX_VALUE], nor Integer::Small of a value outside it.
C3_CanonicalForm ==
    (op \in ArithOps \cup ShiftOps \cup BitOps \cup {"not"}) =>
        /\ out.kind = "Big" => ~InRangeScaled(out.value, out.exp)
        /\ out.kind = "Small" => InRange(out.value)

\* C4: dividing or taking the remainder by SmallInteger(0) yields a
\* DivisionByZero error and never goes through the arbitrary-precision path.
C4_DivisionByZero ==
    (op \in {"div", "rem"} /\ rhs = 0) =>
        /\ out.kind = "DivisionByZero"
        /\ out.path # "bignum"

\* C5: new(i) is Ok(i) exactly when MIN_VALUE <= i <= MAX_VALUE, and a range
\* error otherwise, with MAX_VALUE = 2^(width-5) - 1 and
\* MIN_VALUE = -MAX_VALUE - 1.
C5_RangeCheckedNew ==
    op = "new" =>
        /\ MAX_VALUE = Pow2(width - 5) - 1
        /\ MIN_VALUE = -MAX_VALUE - 1
        /\ IF RangeMin <= lhs /\ lhs <= RangeMax
           THEN out.kind = "Ok" /\ out.value = lhs
           ELSE out.kind = "Err"

\* new accepts MAX_VALUE
C5_Witness ==
    /\ op = "new"
    /\ lhs = RangeMax
    /\ out.kind = "Ok"
    /\ out.value = RangeMax

\* C6: every fallible conversion returns Ok of the same value n when n is
\* within [MIN_VALUE, MAX_VALUE] and a range error otherwise, on 32-bit and
\* on 64-bit targets.
C6_TryFromExact ==
    op \in TryFromOps =>
        IF InRange(lhs)
        THEN out.kind = "Ok" /\ out.value = lhs
        ELSE out.kind = "Err"

\* C7: !a is Integer::Small of the complement of a within the magnitude
\* field, which is MAX_VALUE - a for a >= 0 and -a - 1 for a < 0; it lies
\* in [0, MAX_VALUE], the Big branch is never taken, and !0 is MAX_VALUE.
C7_ComplementMasking ==
    op = "not" =>
        /\ out.kind = "Small"
        /\ out.path = "small"
        /\ out.value = (IF lhs >= 0 THEN RangeMax - lhs ELSE -lhs - 1)
        /\ 0 <= out.value /\ out.value <= RangeMax
        /\ lhs = 0 => out.value = RangeMax

\* the complement of zero is MAX_VALUE, not -1
C7_Witness ==
    /\ op = "not"
    /\ lhs = 0
    /\ out.kind = "Small"
    /\ out.value = RangeMax
    /\ RangeMax > 0

\* C8: a & b, a | b and a ^ b of small integers are within
\* [MIN_VALUE, MAX_VALUE]; new_unchecked never panics and the operator
\* returns Integer::Small of the two's-complement result.
C8_BitOpsInRange ==
    op \in BitOps =>
        /\ out.kind = "Small"
        /\ InRange(out.value)
        /\ out.value = (CASE op = "bitand" -> MathAnd(lhs, rhs)
                          [] op = "bitor" -> MathOr(lhs, rhs)
                          [] op = "bitxor" -> MathXor(lhs, rhs))

\* MIN_VALUE ^ MAX_VALUE is -1, a negative result of extreme operands
C8_Witness ==
    /\ op = "bitxor"
    /\ lhs = RangeMin
    /\ rhs = RangeMax
    /\ out.kind = "Small"
    /\ out.value = -1

\* C9: partial_cmp of a SmallInteger and a BigInteger is always Some of the
\* ordering of the two mathematical values, and == holds exactly when the
\* values are equal, that is exactly when partial_cmp gives Equal.
C9_BigComparison ==
    /\ op = "partial_cmp_big" =>
        /\ out.kind = "SomeOrdering"
        /\ lhs < rhs => out.value = -1
        /\ lhs = rhs => out.value = 0
        /\ lhs > rhs => out.value = 1
    /\ op = "eq_big" =>
        /\ out.kind = "Bool"
        /\ out.value = 1 <=> lhs = rhs

\* MIN_VALUE is less than a BigInteger beyond the range of i64
C9_Witness ==
    /\ op = "partial_cmp_big"
    /\ lhs = RangeMin
    /\ rhs > IMax(Bits64)
    /\ out.value = -1

\* C10: the word of as_term carries exactly the small-integer tag in the
\* immediate header, and its sign flag is set exactly when the value is
\* negative.
C10_ReservedBits ==
    op = "as_term" =>
        /\ (out.value \div Pow2(width - 4)) * Pow2(width - 4) = rhs
        /\ (out.value \div Pow2(width - 5)) % 2 = 1 <=> lhs < 0

\* MIN_VALUE, whose magnitude is the sign flag itself, is encoded with the
\* sign flag set under a tag with all header bits set
C10_Witness ==
    /\ op = "as_term"
    /\ lhs = RangeMin
    /\ rhs = 15 * Pow2(width - 4)
    /\ (out.value \div Pow2(width - 5)) % 2 = 1

\* C11: when the native checked right shift fails (the amount fits the
\* shift-count type and is at least the native bit width), a >> n is the
\* floor of a / 2^n: 0 for a >= 0 and -1 for a < 0.
C11_ShrFallback ==
    (op = "shr" /\ ShiftFits(rhs) /\ rhs >= width) =>
        /\ out.kind \in {"Small", "Big"}
        /\ out.exp = 0
        /\ out.value = (IF lhs >= 0 THEN 0 ELSE -1)

\* whether value * 2^exp equals a * 2^n, for value and a within isize
SameScaled(value, exp, a, n) ==
    IF a = 0 \/ value = 0 THEN a = 0 /\ value = 0
    ELSE IF exp <= n
         THEN n - exp <= 2 * width /\ value = a * Pow2(n - exp)
         ELSE exp - n <= 2 * width /\ a = value * Pow2(exp - n)

\* C12: a << n is the Integer of exactly a * 2^n for every shift amount:
\* Integer::Small when a * 2^n is within [MIN_VALUE, MAX_VALUE] and
\* Integer::Big otherwise, with no bits lost to wrap-around.
C12_ShlExact ==
    op = "shl" =>
        /\ out.kind \in {"Small", "Big"}
        /\ SameScaled(out.value, out.exp, lhs, rhs)
        /\ out.kind = "Small" <=> InRangeScaled(out.value, out.exp)

====
